---------------------------- MODULE Spec2Model ----------------------------
(***************************************************************************)
(* The Moltbook idea pipeline: the scoring engine (IdeaAnalyzer), the      *)
(* scaffolder (WebsiteBuilder), the dashboard cycles over the SQLite idea  *)
(* store (ObservatoryDashboard, Database), the /api/build endpoint and the *)
(* JSON idea store of IdeaFactory.                                         *)
(*                                                                         *)
(* Texts.  The code only ever asks of a text whether a keyword occurs in   *)
(* it (Python `kw in text`).  A text is therefore modelled by the set of   *)
(* words written in it, and Occ gives the keywords that occur in it as     *)
(* substrings.  Chinese keywords are written in pinyin with the prefix     *)
(* zh_ (the module is ASCII); the comments beside the tables give the      *)
(* original.                                                               *)
(*                                                                         *)
(* Numbers.  Scores are kept as scaled integers: engagement in tenths,     *)
(* the category bonus in hundredths, the total in thousandths and the      *)
(* reported creativity_score in tenths.  Python computes the total in      *)
(* binary floating point, whose last bit can fall on either side of the    *)
(* exact value; fp (-1, 0, 1) is the sign of that deviation and is an      *)
(* input of analyze: it matters only at exact ties of the rounding and at  *)
(* exact hits of a threshold.                                              *)
(***************************************************************************)
EXTENDS Integers, Sequences, FiniteSets, TLC

VARIABLES
    post,       \* ScoreSpec: the post handed to IdeaAnalyzer.analyze
    fp,         \* ScoreSpec: sign of the floating-point deviation of the total
    result,     \* ScoreSpec: the analysis result, or NoResult
    dbIdeas,    \* the rows of the SQLite table ideas, in rowid order
    projects,   \* output/projects: project id -> the directory's content
    clock,      \* the reading of datetime.now()
    last,       \* what the last dashboard or API operation was given and returned
    dbHeld,     \* history: idea id -> the statuses its row has held, in order
    ideas,      \* IdeaFactory: the list ideas['ideas'] of collected_ideas.json
    fProjects,  \* IdeaFactory: the output directory, project id -> content
    fLast,      \* what the last IdeaFactory operation was given and returned
    ingested,   \* history: per store, the ids handed to its ingestion operation
    monitoring_posts,  \* MoltbookMonitor: the list in data/monitoring_posts.json
    mLast,      \* what the last fetch or MoltbookMonitor cycle was given and returned
    call,       \* batch_convert: the arguments of the call
    files,      \* batch_convert: the list files, one future per entry
    futures,    \* batch_convert: per submitted convert_file, where its thread stands
    outdir,     \* batch_convert: output_dir, file name -> content
    results,    \* batch_convert: the dict results
    cpc         \* batch_convert: where the calling thread stands

scoreVars == <<post, fp, result>>
appVars == <<dbIdeas, projects, clock, last, dbHeld>>
factoryVars == <<ideas, fProjects, fLast>>
monitorVars == <<monitoring_posts, mLast>>
convVars == <<call, files, futures, outdir, results, cpc>>
vars == <<post, fp, result, dbIdeas, projects, clock, last, dbHeld,
          ideas, fProjects, fLast, ingested, monitoring_posts, mLast,
          call, files, futures, outdir, results, cpc>>

Min2(a, b) == IF a <= b THEN a ELSE b
Max2(a, b) == IF a >= b THEN a ELSE b

(***************************************************************************)
(* Keyword tables of IdeaAnalyzer.                                         *)
(***************************************************************************)
TECH_KEYWORDS ==
    << "ai", "agent", "llm", "gpt",
       "zh_jiqixuexi",      \* 机器学习
       "zh_shenduxuexi",    \* 深度学习
       "automation", "workflow",
       "zh_zidonghua",      \* 自动化
       "zh_gongzuoliu",     \* 工作流
       "api", "integration",
       "zh_jicheng",        \* 集成
       "zh_chajian",        \* 插件
       "blockchain", "web3", "crypto",
       "cloud", "serverless",
       "zh_yunyuansheng",   \* 云原生
       "iot", "edge",
       "zh_bianyuanjisuan"  \* 边缘计算
    >>

BUSINESS_KEYWORDS ==
    << "saas", "platform",
       "zh_pingtai",        \* 平台
       "marketplace",
       "zh_shichang",       \* 市场
       "subscription",
       "zh_dingyue",        \* 订阅
       "zh_fufei",          \* 付费
       "zh_shangyehua",     \* 商业化
       "enterprise",
       "zh_qiyeji",         \* 企业级
       "b2b", "startup",
       "zh_chuangye",       \* 创业
       "launch",
       "zh_fabu"            \* 发布
    >>

UTILITY_KEYWORDS ==
    << "tool",
       "zh_gongju",         \* 工具
       "library",
       "zh_ku",             \* 库
       "framework",
       "zh_kuangjia",       \* 框架
       "template",
       "zh_muban",          \* 模板
       "generator",
       "zh_shengchengqi",   \* 生成器
       "dashboard",
       "zh_yibiaoban",      \* 仪表板
       "analytics",
       "zh_fenxi",          \* 分析
       "monitoring",
       "zh_jiankong",       \* 监控
       "cli",
       "zh_minglinghang"    \* 命令行
    >>

\* CATEGORIES, in declaration order; weight in hundredths (1.3 -> 130).
\* The platform keyword list names "platform" twice, as the source does.
CATEGORIES ==
    << [name |-> "ai_application", weight |-> 130, description |-> "AI_yingyong",        \* AI应用
        keywords |-> <<"ai", "agent", "llm", "gpt", "chatbot", "assistant">>],
       [name |-> "automation", weight |-> 120, description |-> "zidonghua_gongju",       \* 自动化工具
        keywords |-> <<"automation", "workflow", "zh_zidonghua", "zh_gongzuoliu", "pipeline">>],
       [name |-> "developer_tools", weight |-> 110, description |-> "kaifazhe_gongju",   \* 开发者工具
        keywords |-> <<"tool", "cli", "library", "framework", "sdk", "api">>],
       [name |-> "platform", weight |-> 125, description |-> "pingtai_chanpin",          \* 平台产品
        keywords |-> <<"platform", "marketplace", "saas", "platform">>],
       [name |-> "content", weight |-> 100, description |-> "neirong_xiangguan",         \* 内容相关
        keywords |-> <<"content", "blog", "generator", "writing", "zh_wenzhang">>]       \* 文章
    >>

\* The generic label _detect_category falls back to (通用).
DefaultCategory == "tongyong"

(***************************************************************************)
(* Substring containment between words: <<k, w>> says that keyword k is a  *)
(* substring of word w, so a text holding w also holds k.                  *)
(***************************************************************************)
Contains ==
    { <<"ai", "blockchain">>,
      <<"monitor", "monitoring">>,
      <<"zh_shengcheng", "zh_shengchengqi">>,   \* 生成 in 生成器
      <<"zh_qiye", "zh_qiyeji">>,               \* 企业 in 企业级
      <<"tool", "tools">> }

\* The keywords occurring in a text made of the given words.
Occ(words) == words \cup { c[1] : c \in { d \in Contains : d[2] \in words } }

SeqToSet(s) == { s[i] : i \in 1..Len(s) }

\* sum(1 for kw in keywords if kw in text): one per list entry, so an entry
\* listed twice counts twice.
CountIn(keywords, text) == Cardinality({ i \in 1..Len(keywords) : keywords[i] \in text })

\* the number of tags that are themselves entries of the keyword list
CountTags(tags, keywords) ==
    Cardinality({ i \in 1..Len(tags) : tags[i] \in SeqToSet(keywords) })

\* combined = f"{title} {content} {' '.join(tags)}"
Combined(p) == Occ(p.title \cup p.content \cup SeqToSet(p.tags))


(***************************************************************************)
(* ScoreEngine: IdeaAnalyzer._calc_*_score.                                 *)
(***************************************************************************)
\* the tech score without its ceiling
_calc_tech_score_without_ceiling(text, tags) ==
    5 * CountIn(TECH_KEYWORDS, text) + 8 * CountTags(tags, TECH_KEYWORDS)

_calc_tech_score(text, tags) ==
    Min2(40, 5 * CountIn(TECH_KEYWORDS, text) + 8 * CountTags(tags, TECH_KEYWORDS))

_calc_business_score(text) ==
    Min2(30, 8 * CountIn(BUSINESS_KEYWORDS, text))

_calc_utility_score(text, tags) ==
    Min2(25, 6 * CountIn(UTILITY_KEYWORDS, text) + 5 * CountTags(tags, UTILITY_KEYWORDS))

\* in tenths: min(15, upvotes * 0.1) + min(5, comments * 0.1)
_calc_engagement_score(p) ==
    Min2(150, p.upvotes) + Min2(50, p.comment_count)

\* in hundredths: the largest min(20, matches * 5 * weight) over the categories
\* with a match, 0 without one
CategoryBonus(c, text) ==
    LET matches == CountIn(c.keywords, text)
    IN  IF matches > 0 THEN Min2(2000, matches * 5 * c.weight) ELSE 0

RECURSIVE MaxBonus(_, _)
MaxBonus(i, text) ==
    IF i = 0 THEN 0 ELSE Max2(MaxBonus(i - 1, text), CategoryBonus(CATEGORIES[i], text))

\* the bonus of the matching category of the highest weight alone
_calc_category_score_of_highest_weight(text) ==
    LET matching == { i \in 1..Len(CATEGORIES) : CountIn(CATEGORIES[i].keywords, text) > 0 }
    IN  IF matching = {} THEN 0
        ELSE CategoryBonus(CATEGORIES[CHOOSE i \in matching :
                 \A j \in matching : CATEGORIES[j].weight <= CATEGORIES[i].weight], text)

_calc_category_score(text) == MaxBonus(Len(CATEGORIES), text)

\* the first category, in declaration order, with at least two matches
_detect_category(text) ==
    LET hits == { i \in 1..Len(CATEGORIES) : CountIn(CATEGORIES[i].keywords, text) >= 2 }
    IN  IF hits = {} THEN DefaultCategory
        ELSE CATEGORIES[CHOOSE i \in hits : \A j \in hits : i <= j].description

(***************************************************************************)
(* DirectionPlanner: IdeaAnalyzer._extract_project_directions.  A trigger  *)
(* fires when one of its keywords occurs in the content (the title and     *)
(* the tags are not looked at).  A direction type is a text too: its       *)
(* words are what WebsiteBuilder._determine_type searches.                 *)
(***************************************************************************)
DirectionTriggers ==
    << [keywords |-> {"dashboard", "monitor", "analytics", "zh_jiankong"},       \* 监控
        type |-> "shuju_fenxi_yibiaoban",  priority |-> "high"],                 \* 数据分析仪表板
       [keywords |-> {"generator", "create", "build", "zh_shengcheng"},          \* 生成
        type |-> "zidonghua_shengchengqi", priority |-> "high"],                 \* 自动化生成器
       [keywords |-> {"agent", "ai", "zh_zhineng"},                              \* 智能
        type |-> "ai_agent_yingyong",      priority |-> "high"],                 \* AI Agent 应用
       [keywords |-> {"platform", "marketplace", "zh_pingtai"},                  \* 平台
        type |-> "saas_pingtai",           priority |-> "medium"],               \* SaaS 平台
       [keywords |-> {"tool", "zh_gongju"},                                      \* 工具
        type |-> "zaixian_gongju_wangzhan", priority |-> "medium"],              \* 在线工具网站
       [keywords |-> {"blog", "zh_neirong", "article"},                          \* 内容
        type |-> "boke_neirong_wangzhan",  priority |-> "medium"]                \* 博客/内容网站
    >>

DefaultDirection == [type |-> "chuangyi_xiangmu_yuanxing", priority |-> "low"]   \* 创意项目原型

RECURSIVE DirectionsFrom(_, _)
DirectionsFrom(i, content) ==
    IF i > Len(DirectionTriggers) THEN << >>
    ELSE LET t == DirectionTriggers[i]
             rest == DirectionsFrom(i + 1, content)
         IN  IF t.keywords \cap content # {}
             THEN <<[type |-> t.type, priority |-> t.priority]>> \o rest
             ELSE rest

\* a planner that appends the default direction whatever fired
_extract_project_directions_with_default_appended(p) ==
    DirectionsFrom(1, Occ(p.content)) \o <<DefaultDirection>>

\* IdeaAnalyzer._extract_project_directions
_extract_project_directions(p) ==
    LET directions == DirectionsFrom(1, Occ(p.content))
    IN  IF directions = << >> THEN <<DefaultDirection>> ELSE directions

(***************************************************************************)
(* Rounding and thresholds on the floating-point total.                    *)
(***************************************************************************)
\* the signs the floating-point deviation of the total can have
FpSigns == {-1, 0, 1}

NoResult == [none |-> TRUE]

\* total_score >= threshold, both in thousandths
FloatGE(total, f, threshold) ==
    total > threshold \/ (total = threshold /\ f >= 0)

\* round(total_score, 1), in tenths.  An exact tie goes the way the
\* floating-point deviation points; a tie the float holds exactly goes to the
\* even neighbour.
Round1(total, f) ==
    LET q == total \div 100
        r == total % 100
    IN  IF r < 50 THEN q
        ELSE IF r > 50 THEN q + 1
        ELSE IF f > 0 THEN q + 1
        ELSE IF f < 0 THEN q
        ELSE IF q % 2 = 0 THEN q ELSE q + 1

\* the weighted sum of analyze, in thousandths
TotalScore(p) ==
    LET combined == Combined(p)
    IN  350 * _calc_tech_score(combined, p.tags)
        + 250 * _calc_business_score(combined)
        + 200 * _calc_utility_score(combined, p.tags)
        + 10 * _calc_engagement_score(p)
        + _calc_category_score(combined)

CollectibleThreshold == 25000
HighQualityThreshold == 50000

\* min(100, round(total_score, 1)), in tenths
ReportedScore(total, f) == Min2(1000, Round1(total, f))

Collectible(total, f) == FloatGE(total, f, CollectibleThreshold)

\* f"{title} {content}".lower(), the text the two suggestion helpers search
TitleAndContent(p) == Occ(p.title \cup p.content)

\* the monetization list given when no keyword group matches
\* (广告, 赞助, 联盟营销)
DefaultMonetization == <<"zh_guanggao", "zh_zanzhu", "zh_lianmeng_yingxiao">>

\* IdeaAnalyzer._suggest_tech_stack
_suggest_tech_stack(p) ==
    LET combined == TitleAndContent(p)
    IN  [ frontend |->
              IF {"dashboard", "ui", "frontend", "web"} \cap combined # {}
              THEN <<"React", "Vue.js", "Next.js">>
              ELSE <<"React", "Vue.js">>,
          backend |->
              IF {"api", "ai", "ml", "zh_zhineng"} \cap combined # {}
              THEN <<"FastAPI", "Python", "Node.js">>
              ELSE IF {"real-time", "zh_shishi", "socket"} \cap combined # {}
              THEN <<"Node.js", "FastAPI">>
              ELSE <<"FastAPI", "Express">>,
          database |->
              IF {"analytics", "data", "zh_fenxi"} \cap combined # {}
              THEN <<"PostgreSQL", "TimescaleDB", "InfluxDB">>
              ELSE <<"PostgreSQL", "SQLite">>,
          deployment |-> <<"Vercel", "Railway", "Docker">> ]

\* a suggestion helper that answers an empty list when no keyword matches
_suggest_monetization_without_default(p) ==
    LET content == TitleAndContent(p)
    IN  IF {"saas", "platform", "enterprise", "zh_qiye"} \cap content # {}
        THEN <<"zh_dingyuezhi", "zh_qiyeban", "zh_siyouhua_bushu">>
        ELSE << >>

\* IdeaAnalyzer._suggest_monetization
_suggest_monetization(p) ==
    LET content == TitleAndContent(p)
    IN  IF {"saas", "platform", "enterprise", "zh_qiye"} \cap content # {}
        THEN <<"zh_dingyuezhi", "zh_qiyeban", "zh_siyouhua_bushu">>       \* 订阅制, 企业版, 私有化部署
        ELSE IF {"tool", "zh_gongju", "zh_mianfei"} \cap content # {}
        THEN <<"zh_mianfei_zengzhi", "zh_guanggao_shouru", "zh_zanzhu">>  \* 免费增值, 广告收入, 赞助
        ELSE IF {"api", "service", "zh_fuwu"} \cap content # {}
        THEN <<"API_diaoyong_jifei", "zh_anliang_fufei">>                 \* API调用计费, 按量付费
        ELSE DefaultMonetization

\* IdeaAnalyzer.analyze
analyze(p, f) ==
    LET combined == Combined(p)
        total == TotalScore(p)
    IN  [ id |-> p.id,
          title |-> p.title,
          content |-> p.content,
          tags |-> p.tags,
          upvotes |-> p.upvotes,
          source |-> "moltbook",
          category |-> _detect_category(combined),
          creativity_score |-> ReportedScore(total, f),
          analysis |-> [ tech_score |-> _calc_tech_score(combined, p.tags),
                         business_score |-> _calc_business_score(combined),
                         utility_score |-> _calc_utility_score(combined, p.tags),
                         engagement_score |-> _calc_engagement_score(p),
                         category_score |-> _calc_category_score(combined) ],
          project_directions |-> _extract_project_directions(p),
          tech_stack |-> _suggest_tech_stack(p),
          monetization |-> _suggest_monetization(p),
          collectible |-> Collectible(total, f),
          high_quality |-> FloatGE(total, f, HighQualityThreshold) ]

(***************************************************************************)
(* ProjectScaffolder: WebsiteBuilder.                                      *)
(***************************************************************************)
\* The words of a direction's type string, lower-cased; a type not listed
\* holds none of the words _determine_type looks for.
TypeText(type) ==
    CASE type = "shuju_fenxi_yibiaoban"   -> {"zh_shuju", "zh_fenxi", "zh_yibiaoban"}   \* 数据分析仪表板
      [] type = "zidonghua_shengchengqi"  -> {"zh_zidonghua", "zh_shengchengqi"}        \* 自动化生成器
      [] type = "ai_agent_yingyong"       -> {"ai", "agent", "zh_yingyong"}             \* AI Agent 应用
      [] type = "saas_pingtai"            -> {"saas", "zh_pingtai"}                     \* SaaS 平台
      [] type = "zaixian_gongju_wangzhan" -> {"zh_zaixian", "zh_gongju", "zh_wangzhan"} \* 在线工具网站
      [] type = "boke_neirong_wangzhan"   -> {"zh_boke", "zh_neirong", "zh_wangzhan"}   \* 博客/内容网站
      [] type = "yibiaoban_dashboard"     -> {"zh_yibiaoban", "dashboard"}              \* 仪表板/dashboard
      [] type = "ai_zhushou_dashboard"    -> {"ai", "zh_zhushou", "dashboard"}          \* AI 助手 Dashboard
      [] type = "generator_blog"          -> {"generator", "blog"}                      \* Generator blog
      [] type = "blog_platform_tool"      -> {"blog", "platform", "tool"}               \* Blog Platform Tool
      [] OTHER                            -> {}

NoDirection == [none |-> TRUE]

\* a type chooser that looks for the platform words before the blog words
_determine_type_platform_before_blog(direction) ==
    IF direction = NoDirection THEN "tool_website"
    ELSE LET dtype == Occ(TypeText(direction.type))
         IN  IF "zh_zhushou" \in dtype \/ "assistant" \in dtype THEN "ai_assistant"
             ELSE IF "zh_yibiaoban" \in dtype \/ "dashboard" \in dtype THEN "dashboard"
             ELSE IF "zh_shengchengqi" \in dtype \/ "generator" \in dtype THEN "generator"
             ELSE IF "zh_pingtai" \in dtype \/ "platform" \in dtype THEN "saas_platform"
             ELSE IF "zh_boke" \in dtype \/ "blog" \in dtype THEN "blog"
             ELSE "tool_website"

\* a type chooser that also takes the word agent for the assistant archetype
_determine_type_agent_as_assistant(direction) ==
    IF direction = NoDirection THEN "tool_website"
    ELSE LET dtype == Occ(TypeText(direction.type))
         IN  IF "zh_zhushou" \in dtype \/ "assistant" \in dtype \/ "agent" \in dtype
                 THEN "ai_assistant"
             ELSE IF "zh_yibiaoban" \in dtype \/ "dashboard" \in dtype THEN "dashboard"
             ELSE IF "zh_shengchengqi" \in dtype \/ "generator" \in dtype THEN "generator"
             ELSE IF "zh_boke" \in dtype \/ "blog" \in dtype THEN "blog"
             ELSE IF "zh_pingtai" \in dtype \/ "platform" \in dtype THEN "saas_platform"
             ELSE "tool_website"

\* WebsiteBuilder._determine_type
_determine_type(direction) ==
    IF direction = NoDirection THEN "tool_website"
    ELSE LET dtype == Occ(TypeText(direction.type))
         IN  IF "zh_zhushou" \in dtype \/ "assistant" \in dtype THEN "ai_assistant"         \* 助手
             ELSE IF "zh_yibiaoban" \in dtype \/ "dashboard" \in dtype THEN "dashboard"     \* 仪表板
             ELSE IF "zh_shengchengqi" \in dtype \/ "generator" \in dtype THEN "generator"  \* 生成器
             ELSE IF "zh_boke" \in dtype \/ "blog" \in dtype THEN "blog"                    \* 博客
             ELSE IF "zh_pingtai" \in dtype \/ "platform" \in dtype THEN "saas_platform"    \* 平台
             ELSE IF "zh_gongju" \in dtype \/ "tool" \in dtype THEN "tool_website"          \* 工具
             ELSE "tool_website"

CommonFiles == {"package.json", "README.md", ".env.example", ".gitignore"}

\* the files _generate_files returns for an archetype
Manifest(project_type) ==
    CommonFiles \cup
    ( CASE project_type = "ai_assistant"  -> {"app/page.tsx", "app/api/chat/route.ts"}
        [] project_type = "dashboard"     -> {"app/page.tsx", "components/Dashboard.tsx"}
        [] project_type = "generator"     -> {"app/page.tsx"}
        [] project_type = "blog"          -> {"app/page.tsx", "content/hello-world.md"}
        [] project_type = "saas_platform" -> {"app/page.tsx"}
        [] OTHER                          -> {"index.html"} )

\* _generate_files raises for the blog archetype: _generate_sample_post is an
\* f-string that names the undefined variable Markdown (NameError).
GenerateFilesRaises(project_type) == project_type = "blog"

NoMeta == [none |-> TRUE]
EmptyDir == [files |-> {}, meta |-> NoMeta, builds |-> 0]

\* md5(idea id + datetime.now().isoformat())[:12]: one id per (idea id, clock
\* reading); the digest is taken to be injective on the pair.
ProjectId(idea_id, now) == <<idea_id, now>>

\* project_dir.mkdir(parents=True, exist_ok=True)
MkDir(dirs, project_id) ==
    IF project_id \in DOMAIN dirs THEN dirs
    ELSE [k \in DOMAIN dirs \cup {project_id} |->
            IF k = project_id THEN EmptyDir ELSE dirs[k]]

\* a build that reports success without writing files or project.json
WriteProject_reporting_success_unwritten(made, idea, project_type, project_id) ==
    [ projects |-> made, raised |-> FALSE, success |-> TRUE,
      project_id |-> project_id, project_type |-> project_type ]

\* lines 74-102 of build: the files are generated (which may raise), written
\* over what the directory holds, and the metadata record project.json is
\* written last
WriteProject(made, idea, project_type, project_id) ==
    IF GenerateFilesRaises(project_type)
    THEN [ projects |-> made, raised |-> TRUE, success |-> FALSE,
           project_id |-> project_id, project_type |-> project_type ]
    ELSE [ projects |-> [made EXCEPT ![project_id] =
               [ files |-> @.files \cup Manifest(project_type),
                 meta |-> [type |-> project_type, idea |-> idea.id,
                           score |-> idea.creativity_score],
                 builds |-> @.builds + 1 ]],
           raised |-> FALSE, success |-> TRUE,
           project_id |-> project_id, project_type |-> project_type ]

\* WebsiteBuilder.build(idea, direction) at clock reading now
Build(dirs, idea, direction, now) ==
    WriteProject(MkDir(dirs, ProjectId(idea.id, now)), idea,
                 _determine_type(direction), ProjectId(idea.id, now))

(***************************************************************************)
(* IdeaStore: Database over the table ideas (id TEXT PRIMARY KEY).         *)
(***************************************************************************)
DbIds(rows) == { rows[i].id : i \in 1..Len(rows) }

\* the row INSERT makes of an analysis result
NewRow(idea_data) ==
    [ id |-> idea_data.id,
      title |-> idea_data.title,
      content |-> idea_data.content,
      creativity_score |-> idea_data.creativity_score,
      status |-> "new" ]

\* insert_idea with a plain INSERT into a table without the primary key: the
\* row is added whether or not the id is there
insert_idea_without_ignore(rows, idea_data) == Append(rows, NewRow(idea_data))

\* Database.insert_idea: INSERT OR IGNORE; status is idea_data.get('status',
\* 'new') and an analysis result carries no status.
insert_idea(rows, idea_data) ==
    IF idea_data.id \in DbIds(rows) THEN rows
    ELSE Append(rows, NewRow(idea_data))

\* s sorted by descending creativity_score, equal scores kept in their order
\* (list.sort is stable)
RECURSIVE SortByScore(_)
SortByScore(s) ==
    IF s = << >> THEN << >>
    ELSE LET rest == SortByScore(Tail(s))
             above == SelectSeq(rest, LAMBDA x : x.creativity_score > Head(s).creativity_score)
             below == SelectSeq(rest, LAMBDA x : x.creativity_score <= Head(s).creativity_score)
         IN  above \o <<Head(s)>> \o below

Take(s, n) == SubSeq(s, 1, Min2(n, Len(s)))

\* Database.get_top_ideas(limit): WHERE creativity_score > 0 ORDER BY
\* creativity_score DESC LIMIT limit; rows of equal score come in rowid order.
get_top_ideas(rows, limit) ==
    Take(SortByScore(SelectSeq(rows, LAMBDA r : r.creativity_score > 0)), limit)

\* UPDATE ideas SET status = 'built' WHERE id = ?
SetBuilt(rows, id) ==
    [i \in 1..Len(rows) |-> IF rows[i].id = id THEN [rows[i] EXCEPT !.status = "built"] ELSE rows[i]]

AppendNew(h, st) == IF h # << >> /\ h[Len(h)] = st THEN h ELSE Append(h, st)

\* the status histories after the rows changed from old to new
HeldAfter(held, rows) ==
    [id \in DbIds(rows) |->
        LET st == (CHOOSE r \in SeqToSet(rows) : r.id = id).status
        IN  IF id \in DOMAIN held THEN AppendNew(held[id], st) ELSE <<st>>]

(***************************************************************************)
(* PipelineOrchestrator: ObservatoryDashboard, and the /api/build endpoint.*)
(* The posts of a cycle are what the FeedSource stub hands over            *)
(* (client.demo_data()['posts']); they are an input of the cycle, drawn    *)
(* from FeedPosts, which holds the stub's first demo post.                 *)
(***************************************************************************)
MaxClock == 1       \* clock readings 0..MaxClock
MaxBuilds == 3      \* completed scaffolds over a run
MaxFeed == 2        \* posts in one feed batch

BatchLimit == 5         \* high_score[:5]
TopLimit == 20          \* get_top_ideas(20)
ApiTopLimit == 100      \* get_top_ideas(100)
DefaultMinScore == 400  \* min_score=40, in tenths

HeavyTags == <<"iot", "edge", "web3", "crypto", "dashboard", "template", "monitoring">>
HeavyTitle == {"saas", "platform", "marketplace", "enterprise"}

\* _demo_posts()[0]: AI Agent 协作框架
DemoPost1 ==
    [ id |-> "demo1", title |-> {"ai", "agent", "zh_kuangjia"},
      content |-> {"ai", "agent", "zh_kuangjia"},
      tags |-> <<"ai", "agent", "framework">>, upvotes |-> 234, comment_count |-> 45 ]

\* a collectible post whose content fires the blog trigger alone
BlogPost ==
    [ id |-> "blogp", title |-> HeavyTitle, content |-> {"blog"},
      tags |-> HeavyTags, upvotes |-> 100, comment_count |-> 0 ]

\* a collectible post whose content fires the tool trigger alone
ToolPost ==
    [ id |-> "toolp", title |-> HeavyTitle, content |-> {"tool"},
      tags |-> HeavyTags, upvotes |-> 0, comment_count |-> 0 ]

FeedPosts == {DemoPost1, BlogPost, ToolPost}

\* six collectible posts of distinct scores (28.5, 28.6, ... 29.0), each
\* firing the tool trigger alone: one more than a cycle builds
WideIds == <<"t1", "t2", "t3", "t4", "t5", "t6">>
WidePost(k) == [ToolPost EXCEPT !.id = WideIds[k], !.upvotes = 10 * (k - 1)]
WideFeed == [k \in 1..Len(WideIds) |-> WidePost(k)]
WideFeeds == { << >>, SubSeq(WideFeed, 1, 1), WideFeed }

\* the post of ToolPost fetched again after it was edited and upvoted: the
\* same id with another content and another score
ToolPostEdited == [ToolPost EXCEPT !.content = {"tool", "zh_gongju"}, !.upvotes = 50]

FeedBatches == UNION { [1..n -> FeedPosts] : n \in 0..MaxFeed }

\* the values of min_score tried, in tenths: the default and 25
MinScores == {DefaultMinScore, 250}

\* direction_index values tried
DirectionIndexes == {-1, 0}

IdeaIds == { p.id : p \in FeedPosts }

RECURSIVE SumBuilds(_, _)
SumBuilds(dirs, keys) ==
    IF keys = {} THEN 0
    ELSE LET k == CHOOSE x \in keys : TRUE
         IN  dirs[k].builds + SumBuilds(dirs, keys \ {k})

TotalBuilds(dirs) == SumBuilds(dirs, DOMAIN dirs)

AppInit ==
    /\ dbIdeas = << >>
    /\ projects = << >>
    /\ clock = 0
    /\ last = [op |-> "none"]
    /\ dbHeld = << >>
    /\ ideas = << >>
    /\ fProjects = << >>
    /\ fLast = [op |-> "none"]
    /\ ingested = [factory |-> {}, db |-> {}]
    /\ monitoring_posts = << >>
    /\ mLast = [op |-> "none"]
    /\ call = [op |-> "none"]
    /\ files = << >>
    /\ futures = << >>
    /\ outdir = << >>
    /\ results = [success |-> << >>, failed |-> << >>]
    /\ cpc = "idle"

\* time passes between two operations
Tick ==
    /\ clock < MaxClock
    /\ clock' = clock + 1
    /\ UNCHANGED <<dbIdeas, projects, last, dbHeld, post, fp, result>>
    /\ UNCHANGED <<factoryVars, ingested, monitorVars, convVars>>

\* analyzer.analyze of each feed post, tabulated as pairs <<post, result>>.
\* No total of a feed post lies on a threshold, and the one total at a
\* rounding tie (the demo post, 15.75) is far below the collectible
\* threshold whichever way it is rounded: the floating-point sign changes
\* nothing a cycle keeps, and is taken as 0.
FeedAnalyses ==
    { <<p, analyze(p, 0)>> : p \in FeedPosts \cup SeqToSet(WideFeed) \cup {ToolPostEdited} }

AnalysisOf(p) == (CHOOSE e \in FeedAnalyses : e[1] = p)[2]

\* run_monitoring_cycle lines 59-67: the collectible analyses, best first
CollectAnalyses(feed) ==
    SortByScore(SelectSeq([i \in 1..Len(feed) |-> AnalysisOf(feed[i])],
                          LAMBDA a : a.collectible))

RECURSIVE InsertAll(_, _)
InsertAll(rows, analyzed) ==
    IF analyzed = << >> THEN rows
    ELSE InsertAll(insert_idea(rows, Head(analyzed)), Tail(analyzed))

\* ObservatoryDashboard.run_monitoring_cycle(save_to_db)
RunMonitoringCycle(feed, save_to_db) ==
    LET analyzed == CollectAnalyses(feed)
        rows == IF save_to_db THEN InsertAll(dbIdeas, analyzed) ELSE dbIdeas
    IN  /\ dbIdeas' = rows
        /\ dbHeld' = HeldAfter(dbHeld, rows)
        /\ last' = [ op |-> "monitor", save_to_db |-> save_to_db,
                     returned |-> [i \in 1..Len(analyzed) |-> analyzed[i].id] ]
        /\ ingested' = IF save_to_db
                        THEN [ingested EXCEPT !.db = @ \cup DbIds(analyzed)]
                        ELSE ingested
        /\ UNCHANGED <<projects, clock, post, fp, result, factoryVars, monitorVars, convVars>>

\* a row read back from the table: status is a column, project_directions is
\* not (schema.py), so idea.get('project_directions', []) is empty
FromRow(r) ==
    [ id |-> r.id, creativity_score |-> r.creativity_score, status |-> r.status,
      project_directions |-> << >>, stored |-> TRUE ]

\* a fresh analysis result: it has no status key
FromAnalysis(a) ==
    [ id |-> a.id, creativity_score |-> a.creativity_score, status |-> "none",
      project_directions |-> a.project_directions, stored |-> FALSE ]

\* run_auto_build_cycle lines 83-90: the stored top ideas, then the fresh
\* analyses, those at or above min_score
HighScore(rows, analyzed, min_score) ==
    LET top_ideas == get_top_ideas(rows, TopLimit)
        all_ideas == [i \in 1..Len(top_ideas) |-> FromRow(top_ideas[i])]
                     \o [i \in 1..Len(analyzed) |-> FromAnalysis(analyzed[i])]
    IN  SelectSeq(all_ideas, LAMBDA i : i.creativity_score >= min_score)

\* high_score[:5] (line 95)
Candidates(rows, analyzed, min_score) ==
    Take(HighScore(rows, analyzed, min_score), BatchLimit)

\* directions[0] if directions else None
FirstDirection(idea) ==
    IF idea.project_directions # << >> THEN idea.project_directions[1] ELSE NoDirection

\* the loop state once builder.build has returned or raised b for candidate i
AfterBuild(st, i, idea, now, b) ==
    IF b.raised
    THEN [st EXCEPT !.projects = b.projects, !.clock = now,
                    !.raised = TRUE, !.failed = i]
    ELSE [st EXCEPT !.projects = b.projects, !.clock = now,
                    !.rows = SetBuilt(st.rows, idea.id),
                    !.built = Append(st.built, i)]

\* one pass of the loop body (lines 96-117) for candidate i
LoopBody(st, i, idea, now) ==
    IF idea.status = "built" THEN st
    ELSE AfterBuild(st, i, idea, now,
                    Build(st.projects, idea, FirstDirection(idea), now))

\* The loop of run_auto_build_cycle (lines 95-117) from candidate i on.  st
\* threads the directories, the rows, the clock, the results and whether
\* builder.build raised: nothing catches the exception, so the loop ends there.
RECURSIVE RunBatch(_, _, _, _)
RunBatch(cands, i, ticks, st) ==
    IF i > Len(cands) \/ st.raised THEN st
    ELSE RunBatch(cands, i + 1, ticks,
                  LoopBody(st, i, cands[i], st.clock + ticks[i]))

\* ObservatoryDashboard.run_auto_build_cycle(min_score)
CycleOutcome(cands, ticks) ==
    RunBatch(cands, 1, ticks,
             [ projects |-> projects, rows |-> dbIdeas, clock |-> clock,
               built |-> << >>, raised |-> FALSE, failed |-> 0 ])

\* ticks[i] tells whether the clock reading changes before candidate i is built
\* max_builds caps the builds of a behaviour.
RunAutoBuildCycleWithin(feed, min_score, max_builds) ==
    \E cands \in {Candidates(dbIdeas, CollectAnalyses(feed), min_score)} :
    /\ TotalBuilds(projects) + Len(SelectSeq(cands, LAMBDA c : c.status # "built")) <= max_builds
    /\ \E ticks \in [1..Len(cands) -> {0, 1}] :
       \E st \in {CycleOutcome(cands, ticks)} :
        /\ st.clock <= MaxClock
        /\ projects' = st.projects
        /\ dbIdeas' = st.rows
        /\ dbHeld' = HeldAfter(dbHeld, st.rows)
        /\ clock' = st.clock
        /\ last' = [ op |-> "auto_build",
                     batch |-> [i \in 1..Len(cands) |-> cands[i].id],
                     skipped |-> { i \in 1..Len(cands) : cands[i].status = "built" },
                     built |-> st.built, aborted |-> st.raised, failed |-> st.failed,
                     high_score |->
                         LET hs == HighScore(dbIdeas, CollectAnalyses(feed), min_score)
                         IN  [ i \in 1..Len(hs) |->
                                 [ id |-> hs[i].id, creativity_score |-> hs[i].creativity_score,
                                   status |-> hs[i].status ] ] ]
        /\ UNCHANGED <<post, fp, result, factoryVars, ingested, monitorVars, convVars>>

RunAutoBuildCycle(feed, min_score) == RunAutoBuildCycleWithin(feed, min_score, MaxBuilds)

\* seq[i] in Python: a negative index counts from the end, an index outside
\* -len..len-1 raises IndexError
PyIndexOk(s, i) == -Len(s) <= i /\ i < Len(s)
PyIndex(s, i) == IF i >= 0 THEN s[i + 1] ELSE s[Len(s) + i + 1]

\* server.build_project(idea_id, direction_index), POST /api/build
ApiBuild(idea_id, direction_index) ==
    LET top_ideas == get_top_ideas(dbIdeas, ApiTopLimit)
        found == SelectSeq(top_ideas, LAMBDA r : r.id = idea_id)
        idea == FromRow(found[1])
        directions == idea.project_directions
        request == [ op |-> "api_build", idea_id |-> idea_id,
                     direction_index |-> direction_index,
                     stored |-> found # << >>,
                     ndirections |-> IF found # << >> THEN Len(directions) ELSE 0 ]
    IN  /\ TotalBuilds(projects) < MaxBuilds
        /\ IF found = << >>
           THEN /\ last' = request @@ [outcome |-> "error_not_found", wrote |-> FALSE]
                /\ UNCHANGED projects
           ELSE IF direction_index < Len(directions) /\ ~PyIndexOk(directions, direction_index)
           THEN /\ last' = request @@ [outcome |-> "IndexError", wrote |-> FALSE]
                /\ UNCHANGED projects
           ELSE LET direction == IF direction_index < Len(directions)
                                 THEN PyIndex(directions, direction_index) ELSE NoDirection
                    b == Build(projects, idea, direction, clock)
                IN  /\ projects' = b.projects
                    /\ last' = request @@
                         [ outcome |-> IF b.raised THEN "raised" ELSE "built",
                           wrote |-> b.projects # projects,
                           project_id |-> b.project_id, project_type |-> b.project_type ]
        /\ UNCHANGED <<dbIdeas, dbHeld, clock, post, fp, result, factoryVars, ingested, monitorVars, convVars>>

(***************************************************************************)
(* IdeaFactory (scripts/factory.py): the JSON idea store collected_ideas   *)
(* and the lifecycle operations over it.                                   *)
(***************************************************************************)
MaxIdeas == 2       \* ideas in the factory store

\* md5(f"{source}{title}")[:12]: the digest of the concatenation, taken to be
\* injective on it.  Two (source, title) pairs with the same concatenation
\* have the same id.
FactoryId(source, title) == source \o title

\* the arguments add_idea is tried with
Sources == {"molt", "moltbook"}
Titles == {"book feed", " feed"}
FactoryContents == {{"tool"}, {"ai", "saas"}}
FactoryTags == {<< >>, <<"ai">>}

\* the scoring rules of analyze_idea, in the order of the source: the
\* keywords looked for in the content, the points and the potential added
FactoryRules ==
    << [keywords |-> {"ai", "agent", "automation", "zh_shengcheng"}, points |-> 20,
        potential |-> "ai_agent_yingyong"],          \* 生成; AI Agent 应用
       [keywords |-> {"api", "integration", "plugin"}, points |-> 15,
        potential |-> "api_jicheng_gongju"],         \* API 集成工具
       [keywords |-> {"dashboard", "analytics", "zh_jiankong"}, points |-> 15,
        potential |-> "jiankong_yibiaoban"],         \* 监控; 监控仪表板
       [keywords |-> {"workflow", "zh_zidonghua"}, points |-> 15,
        potential |-> "gongzuoliu_zidonghua"],       \* 自动化; 工作流自动化
       [keywords |-> {"saas", "platform", "zh_fuwu"}, points |-> 20,
        potential |-> "saas_pingtai"],               \* 服务; SaaS 平台
       [keywords |-> {"open source", "zh_kaiyuan"}, points |-> 10,
        potential |-> "kaiyuan_xiangmu"],            \* 开源; 开源项目
       [keywords |-> {"free", "zh_mianfei"}, points |-> 5,
        potential |-> "mianfei_gongju"],             \* 免费; 免费工具
       [keywords |-> {"tool", "zh_gongju", "library"}, points |-> 15,
        potential |-> "kaifazhe_gongju"],            \* 工具; 开发者工具
       [keywords |-> {"template", "zh_muban"}, points |-> 10,
        potential |-> "muban_jiaoshoujia"],          \* 模板; 模板/脚手架
       [keywords |-> {"generator", "zh_shengchengqi"}, points |-> 15,
        potential |-> "daima_shengchengqi"],         \* 生成器; 代码生成器
       [keywords |-> {"trending", "popular", "zh_remen"}, points |-> 10,
        potential |-> "qushi_yingyong"]              \* 热门; 趋势应用
    >>

\* the rules whose keywords occur in the content, in order
FiredRules(content) ==
    SelectSeq(FactoryRules, LAMBDA r : r.keywords \cap Occ(content) # {})

RECURSIVE SumPoints(_)
SumPoints(rules) ==
    IF rules = << >> THEN 0 ELSE Head(rules).points + SumPoints(Tail(rules))

\* the position of the idea with this id in the list, 0 when there is none
\* (next((i for i in ideas if i['id'] == idea_id), None))
FindIdea(list, idea_id) ==
    IF \E i \in 1..Len(list) : list[i].id = idea_id
    THEN CHOOSE i \in 1..Len(list) :
            /\ list[i].id = idea_id
            /\ \A j \in 1..(i - 1) : list[j].id # idea_id
    ELSE 0

FactoryIds(list) == { list[i].id : i \in 1..Len(list) }

\* the idea add_idea makes of its arguments
NewIdea(source, title, content, tags) ==
    [ id |-> FactoryId(source, title), source |-> source, title |-> title,
      content |-> content, tags |-> tags, category |-> "general",
      status |-> "new", creativity_score |-> 0,
      project_potential |-> << >>, expanded_ideas |-> << >> ]

\* an add_idea that overwrites the stored idea of the same id
add_idea_overwriting(list, idea) ==
    IF idea.id \notin FactoryIds(list) THEN Append(list, idea)
    ELSE [i \in 1..Len(list) |-> IF list[i].id = idea.id THEN idea ELSE list[i]]

\* IdeaFactory.add_idea: appended unless an idea of that id is in the list
add_idea(list, idea) ==
    IF idea.id \notin FactoryIds(list) THEN Append(list, idea) ELSE list

\* IdeaFactory.analyze_idea on the idea at position k: the score in points,
\* the potentials, and status 'analyzed' whatever the status was
analyze_idea(list, k) ==
    LET fired == FiredRules(list[k].content)
    IN  [list EXCEPT ![k].creativity_score = Min2(100, SumPoints(fired)),
                     ![k].project_potential = [i \in 1..Len(fired) |-> fired[i].potential],
                     ![k].status = "analyzed"]

\* the keys every expanded entry has; neither has the key source_idea
WebsiteKeys == {"name", "type", "description", "tech_stack", "features", "monetization"}

\* the entries generate_website_ideas makes: one for an idea tagged ai or
\* agent (or whose content holds 人工智能), whose later keys override the
\* earlier ones of the same literal, the default entry otherwise
ExpandedIdeas(idea) ==
    IF "ai" \in SeqToSet(idea.tags) \/ "agent" \in SeqToSet(idea.tags)
       \/ "zh_rengongzhineng" \in Occ(idea.content)
    THEN << [ name |-> <<idea.title, "shengchengqi">>,       \* {title}生成器
              type |-> "zaixian_shengchengqi",               \* 在线生成器
              tech_stack |-> {"Next.js", "Vercel", "Supabase"},
              keys |-> WebsiteKeys ] >>
    ELSE << [ name |-> <<"jiyu", idea.title, "chuangyi_wangzhan">>,  \* 基于{title}的创意网站
              type |-> "neirong_wangzhan",                   \* 内容网站
              tech_stack |-> {"Next.js", "Tailwind CSS"},
              keys |-> WebsiteKeys ] >>

\* IdeaFactory.generate_website_ideas on the idea at position k
generate_website_ideas(list, k) ==
    [list EXCEPT ![k].expanded_ideas = ExpandedIdeas(list[k]),
                 ![k].status = "expanded"]

\* _generate_base_files reads website['source_idea'] for the README
\* (KeyError when the entry has no such key)
GenerateBaseFilesRaises(website) == "source_idea" \notin website.keys

\* the files _generate_base_files returns
BaseFiles(website) ==
    {"package.json", "README.md"} \cup
    ( IF "Next.js" \in website.tech_stack
      THEN {"app/page.js", "app/layout.js", "next.config.js", "tailwind.config.js"}
      ELSE {"index.html"} )

\* the outcome of IdeaFactory.build_website(idea_id, website_index) on the
\* list and the output directory at clock reading now
build_website(list, out, idea_id, website_index, now) ==
    LET k == FindIdea(list, idea_id)
        expanded == list[k].expanded_ideas
        unchanged == [ideas |-> list, out |-> out]
    IN  IF k = 0 THEN unchanged @@ [outcome |-> "None"]
        ELSE IF website_index >= Len(expanded) THEN unchanged @@ [outcome |-> "None"]
        ELSE IF ~PyIndexOk(expanded, website_index)
             THEN unchanged @@ [outcome |-> "IndexError"]
        ELSE IF GenerateBaseFilesRaises(PyIndex(expanded, website_index))
             THEN unchanged @@ [outcome |-> "KeyError"]
        ELSE LET website == PyIndex(expanded, website_index)
                 project_id == <<website.name, now>>
             IN  [ ideas |-> [list EXCEPT ![k].status = "built"],
                   out |-> [MkDir(out, project_id) EXCEPT ![project_id] =
                              [ files |-> @.files \cup BaseFiles(website),
                                meta |-> [type |-> website.type, idea |-> list[k].id,
                                          score |-> list[k].creativity_score],
                                builds |-> @.builds + 1 ]],
                   outcome |-> "built" ]

AddIdea(source, title, content, tags) ==
    LET idea == NewIdea(source, title, content, tags)
    IN  /\ Len(ideas) < MaxIdeas \/ idea.id \in FactoryIds(ideas)
        /\ ideas' = add_idea(ideas, idea)
        /\ fLast' = [ op |-> "add_idea", idea_id |-> idea.id,
                      returned |-> idea.id \notin FactoryIds(ideas) ]
        /\ ingested' = [ingested EXCEPT !.factory = @ \cup {idea.id}]
        /\ UNCHANGED <<fProjects, dbIdeas, projects, clock, last, dbHeld, post, fp, result,
                       monitorVars, convVars>>

AnalyzeIdea(idea_id) ==
    LET k == FindIdea(ideas, idea_id)
    IN  /\ ideas' = IF k = 0 THEN ideas ELSE analyze_idea(ideas, k)
        /\ fLast' = [ op |-> "analyze_idea", idea_id |-> idea_id, returned |-> k # 0 ]
        /\ UNCHANGED <<fProjects, ingested, monitorVars, convVars, dbIdeas, projects, clock, last, dbHeld,
                       post, fp, result>>

GenerateWebsiteIdeas(idea_id) ==
    LET k == FindIdea(ideas, idea_id)
    IN  /\ ideas' = IF k = 0 THEN ideas ELSE generate_website_ideas(ideas, k)
        /\ fLast' = [ op |-> "generate_website_ideas", idea_id |-> idea_id,
                      returned |-> k # 0 ]
        /\ UNCHANGED <<fProjects, ingested, monitorVars, convVars, dbIdeas, projects, clock, last, dbHeld,
                       post, fp, result>>

BuildWebsite(idea_id, website_index) ==
    \E b \in {build_website(ideas, fProjects, idea_id, website_index, clock)} :
        /\ ideas' = b.ideas
        /\ fProjects' = b.out
        /\ fLast' = [ op |-> "build_website", idea_id |-> idea_id,
                      website_index |-> website_index,
                      stored |-> FindIdea(ideas, idea_id) # 0,
                      nwebsites |-> IF FindIdea(ideas, idea_id) # 0
                                    THEN Len(ideas[FindIdea(ideas, idea_id)].expanded_ideas)
                                    ELSE 0,
                      outcome |-> b.outcome, wrote |-> b.out # fProjects ]
        /\ UNCHANGED <<ingested, monitorVars, convVars, dbIdeas, projects, clock, last, dbHeld, post, fp, result>>

FactoryIdeaIds == { FactoryId(s, t) : s \in Sources, t \in Titles } \cup {"unknown"}

FactoryNext ==
    \/ \E source \in Sources, title \in Titles, content \in FactoryContents,
          tags \in FactoryTags : AddIdea(source, title, content, tags)
    \/ \E idea_id \in FactoryIdeaIds : AnalyzeIdea(idea_id)
    \/ \E idea_id \in FactoryIdeaIds : GenerateWebsiteIdeas(idea_id)
    \/ \E idea_id \in FactoryIdeaIds, website_index \in DirectionIndexes :
          BuildWebsite(idea_id, website_index)

\* the ingestion operations of the two idea stores, interleaved; add_idea
\* decides on source and title alone, so one content and one tag list do
IngestNext ==
    \/ \E source \in Sources, title \in Titles : AddIdea(source, title, {"tool"}, << >>)
    \/ \E feed \in FeedBatches, save_to_db \in BOOLEAN :
          RunMonitoringCycle(feed, save_to_db)

Next ==
    \/ Tick
    \/ \E feed \in FeedBatches, save_to_db \in BOOLEAN :
          RunMonitoringCycle(feed, save_to_db)
    \/ \E feed \in FeedBatches, min_score \in MinScores :
          RunAutoBuildCycle(feed, min_score)
    \/ \E idea_id \in IdeaIds \cup {"unknown"}, direction_index \in DirectionIndexes :
          ApiBuild(idea_id, direction_index)

Init ==
    /\ AppInit
    /\ post = NoResult
    /\ fp = 0
    /\ result = NoResult

Spec == Init /\ [][Next]_vars

FactorySpec == Init /\ [][FactoryNext]_vars

IngestSpec == Init /\ [][IngestNext]_vars

(***************************************************************************)
(* ScoreSpec: analyze applied to one post drawn from a bounded family.     *)
(***************************************************************************)
\* words the content of a scored post is drawn from
WordPool ==
    {"saas", "platform", "marketplace", "ai", "agent", "tool", "blog", "zh_kuangjia",
     "dashboard", "generator"}

\* tag lists of a scored post: none, those of the first demo post, and a list
\* heavy enough to reach the tech and utility ceilings
TagLists ==
    { << >>,
      <<"ai", "agent", "framework">>,
      <<"iot", "edge", "web3", "crypto", "dashboard", "template", "monitoring">> }

\* upvote and comment counts; PostInput.upvotes is any int
UpvoteCounts == {-10, 0, 8, 234}
CommentCounts == {0, 45}

\* a post heavy enough for every sub-score of analyze to reach its min(...)
CeilingPost ==
    [ id |-> "p", title |-> HeavyTitle, content |-> {}, tags |-> HeavyTags,
      upvotes |-> 234, comment_count |-> 60 ]

\* the scored posts: the bounded family, the first demo post as it is, and
\* the post at the ceilings
ScorePosts ==
    { [id |-> "p", title |-> {}, content |-> c, tags |-> t, upvotes |-> u, comment_count |-> k] :
        c \in SUBSET WordPool, t \in TagLists, u \in UpvoteCounts, k \in CommentCounts }
    \cup {DemoPost1, CeilingPost}

ScoreInit ==
    /\ post \in ScorePosts
    /\ fp \in FpSigns
    /\ result = NoResult
    /\ AppInit

Analyze ==
    /\ result = NoResult
    /\ result' = analyze(post, fp)
    /\ UNCHANGED <<post, fp>>
    /\ UNCHANGED <<appVars, factoryVars, ingested, monitorVars, convVars>>

ScoreNext == Analyze

ScoreSpec == ScoreInit /\ [][ScoreNext]_vars

(***************************************************************************)
(* BatchSpec: the dashboard's cycles over a feed of six collectible posts, *)
(* one more than an auto-build cycle takes.                                *)
(***************************************************************************)
MaxBatchBuilds == 6     \* builds in a behaviour of BatchSpec

BatchNext ==
    \/ Tick
    \/ \E feed \in WideFeeds : RunMonitoringCycle(feed, TRUE)
    \/ \E feed \in WideFeeds : RunAutoBuildCycleWithin(feed, 250, MaxBatchBuilds)

BatchSpec == Init /\ [][BatchNext]_vars

(***************************************************************************)
(* ArtifactSpec: the dashboard's cycles over feeds of a post whose build   *)
(* completes and a post whose planner direction makes the build raise,     *)
(* beside the lifecycle of one idea of the factory store.                  *)
(***************************************************************************)
ArtifactFeeds == { << >>, <<BlogPost>> }

ArtifactNext ==
    \/ Tick
    \/ RunMonitoringCycle(<<BlogPost, ToolPost>>, TRUE)
    \/ \E feed \in ArtifactFeeds : RunAutoBuildCycle(feed, 250)
    \/ AddIdea("molt", "book feed", {"tool"}, << >>)
    \/ AnalyzeIdea(FactoryId("molt", "book feed"))
    \/ GenerateWebsiteIdeas(FactoryId("molt", "book feed"))
    \/ BuildWebsite(FactoryId("molt", "book feed"), 0)

ArtifactSpec == Init /\ [][ArtifactNext]_vars

(***************************************************************************)
(* ReingestSpec: ideas handed again to the two stores after the stored     *)
(* record has changed (analysed in the factory, built in the dashboard)    *)
(* and with another content, tag list or score than the stored one.        *)
(***************************************************************************)
ReingestFeeds == { <<ToolPost>>, <<ToolPostEdited>> }

ReingestNext ==
    \/ \E title \in Titles, content \in FactoryContents, tags \in FactoryTags :
          AddIdea("molt", title, content, tags)
    \/ \E idea_id \in { FactoryId("molt", t) : t \in Titles } : AnalyzeIdea(idea_id)
    \/ \E feed \in ReingestFeeds : RunMonitoringCycle(feed, TRUE)
    \/ RunAutoBuildCycle(<< >>, 250)

ReingestSpec == Init /\ [][ReingestNext]_vars

(***************************************************************************)
(* FeedSource: the fetch entry points MoltbookClient.get_feed / get_posts  *)
(* (api/client.py) and MoltbookMonitor.fetch_posts with the cycle that     *)
(* calls it (scripts/monitor.py).  The answer of the HTTP request is an    *)
(* input: status 200 with a list of posts, another status, or an           *)
(* exception raised by the HTTP library.                                   *)
(***************************************************************************)
FetchFailures == {"401", "429", "500", "exception"}

\* posts the API answers with
ApiPost1 == [id |-> "a1", title |-> {}, content |-> {"ai", "tool"}, tags |-> << >>, upvotes |-> 0]
ApiPost2 == [id |-> "a2", title |-> {}, content |-> {"template"}, tags |-> << >>, upvotes |-> 60]

ApiBatches == UNION { [1..n -> {ApiPost1, ApiPost2}] : n \in 0..MaxFeed }

Responses ==
    { [status |-> "200", data |-> b] : b \in ApiBatches }
    \cup { [status |-> f, data |-> << >>] : f \in FetchFailures }

NoneValue == [none |-> TRUE]

\* MoltbookClient._request: response.json() on status 200; every other
\* status and every exception end in return None
_request(response) ==
    IF response.status = "200" THEN [data |-> response.data] ELSE NoneValue

\* MoltbookClient.get_feed: result.get('data', []) if result else []
get_feed(response) ==
    LET res == _request(response)
    IN  IF res # NoneValue THEN res.data ELSE << >>

\* MoltbookClient.get_posts: the same over the endpoint posts
get_posts(response) ==
    LET res == _request(response)
    IN  IF res # NoneValue THEN res.data ELSE << >>

\* MoltbookMonitor._get_demo_posts
_get_demo_posts ==
    << [id |-> "1", title |-> {"ai", "agent", "zh_xiezuo", "zh_pingtai"},       \* AI Agent 协作平台
        content |-> {"ai", "agent", "zh_pingtai"},
        tags |-> <<"ai", "agent", "collaboration">>, upvotes |-> 150],
       [id |-> "2", title |-> {"zh_zidonghua", "zh_neirong", "zh_shengchengqi"}, \* 自动化内容生成器
        content |-> {"zh_shengcheng", "zh_boke", "zh_neirong"},
        tags |-> <<"ai", "content", "automation">>, upvotes |-> 89],
       [id |-> "3", title |-> {"zh_kaifazhe", "zh_yibiaoban", "zh_muban"},       \* 开发者仪表板模板
        content |-> {"zh_kaifazhe", "zh_yibiaoban", "zh_muban"},
        tags |-> <<"dashboard", "template", "ui">>, upvotes |-> 76],
       [id |-> "4", title |-> {"zh_kaiyuan", "zh_xiangmu"},                      \* 开源项目发现引擎
        content |-> {"ai", "github", "zh_pingtai"},
        tags |-> <<"github", "ai", "discovery">>, upvotes |-> 234],
       [id |-> "5", title |-> {"zh_gongzuoliu", "zh_zidonghua"},                 \* 低代码工作流自动化
        content |-> {"zh_zidonghua", "zh_gongzuoliu"},
        tags |-> <<"no-code", "workflow", "automation">>, upvotes |-> 312] >>

\* MoltbookMonitor.fetch_posts: the demo posts without an API key, the data
\* of a 200 answer, and the demo posts again after any other status or an
\* exception
fetch_posts(api_key, response) ==
    IF ~api_key THEN _get_demo_posts
    ELSE IF response.status = "200" THEN response.data
    ELSE _get_demo_posts

\* MoltbookMonitor.analyze_post: the score, min(100, score)
analyze_post(p) ==
    LET content == Occ(p.title \cup p.content)
        tags == SeqToSet(p.tags)
        score ==
            (IF {"ai", "agent", "zh_shengcheng", "zh_zhineng"} \cap content # {} THEN 25 ELSE 0)
          + (IF {"zh_zidonghua", "automation", "workflow"} \cap content # {} THEN 20 ELSE 0)
          + (IF {"api", "integration"} \cap tags # {} THEN 15 ELSE 0)
          + (IF {"zh_gongju", "tool", "platform"} \cap content # {} THEN 20 ELSE 0)
          + (IF {"zh_muban", "template", "zh_shengchengqi"} \cap content # {} THEN 15 ELSE 0)
          + (IF p.upvotes > 100 THEN 15 ELSE IF p.upvotes > 50 THEN 10 ELSE 0)
    IN  [ id |-> p.id, creativity_score |-> Min2(100, score) ]

\* the score from which MoltbookMonitor keeps a post
MonitorThreshold == 30

\* MoltbookMonitor.run_monitoring_cycle lines 169-198, on the posts fetched:
\* what is kept, and the file after the merge
MonitorMerge(existing, posts) ==
    LET analyzed == SelectSeq([i \in 1..Len(posts) |-> analyze_post(posts[i])],
                              LAMBDA a : a.creativity_score >= MonitorThreshold)
        existing_ids == { existing[i].id : i \in 1..Len(existing) }
        new_posts == SelectSeq(analyzed, LAMBDA a : a.id \notin existing_ids)
    IN  [ analyzed |-> analyzed, new_posts |-> new_posts,
          file |-> existing \o new_posts ]

PostIds(posts) == [i \in 1..Len(posts) |-> posts[i].id]

\* MoltbookClient.get_feed()
GetFeed(response) ==
    /\ mLast' = [ op |-> "get_feed", status |-> response.status,
                  returned |-> PostIds(get_feed(response)), saved |-> 0 ]
    /\ UNCHANGED <<convVars, monitoring_posts, appVars, factoryVars, ingested, post, fp, result>>

\* MoltbookClient.get_posts()
GetPosts(response) ==
    /\ mLast' = [ op |-> "get_posts", status |-> response.status,
                  returned |-> PostIds(get_posts(response)), saved |-> 0 ]
    /\ UNCHANGED <<convVars, monitoring_posts, appVars, factoryVars, ingested, post, fp, result>>

\* the status of the request a MoltbookMonitor fetch makes; none is made
\* without an API key
RequestStatus(api_key, response) == IF api_key THEN response.status ELSE "no_request"

\* MoltbookMonitor.fetch_posts()
FetchPosts(api_key, response) ==
    /\ mLast' = [ op |-> "fetch_posts", status |-> RequestStatus(api_key, response),
                  returned |-> PostIds(fetch_posts(api_key, response)), saved |-> 0 ]
    /\ UNCHANGED <<convVars, monitoring_posts, appVars, factoryVars, ingested, post, fp, result>>

\* MoltbookMonitor.run_monitoring_cycle()
MonitorCycle(api_key, response) ==
    LET posts == fetch_posts(api_key, response)
        merged == MonitorMerge(monitoring_posts, posts)
    IN  /\ monitoring_posts' = merged.file
        /\ mLast' = [ op |-> "monitor_cycle", status |-> RequestStatus(api_key, response),
                      returned |-> PostIds(posts), saved |-> Len(merged.new_posts) ]
        /\ UNCHANGED <<convVars, appVars, factoryVars, ingested, post, fp, result>>

FetchNext ==
    \E response \in Responses :
        \/ GetFeed(response)
        \/ GetPosts(response)
        \/ \E api_key \in BOOLEAN :
               \/ FetchPosts(api_key, response)
               \/ MonitorCycle(api_key, response)

FetchSpec == Init /\ [][FetchNext]_vars

(***************************************************************************)
(* RawSpec: analyze applied to a post as it arrives, whose fields may be   *)
(* absent, null or of another type.  A raw field is a record: kind says    *)
(* what the dict holds under the key (absent: no such key, null: None,     *)
(* int: a number, str: a string, list: a list of strings) and the other    *)
(* field is the value when it has the expected type.                       *)
(***************************************************************************)
RawTexts ==
    { [kind |-> k, text |-> {}] : k \in {"absent", "null", "int"} }
    \cup { [kind |-> "str", text |-> {"ai", "agent"}] }

RawTagLists ==
    { [kind |-> k, list |-> << >>] : k \in {"absent", "null"} }
    \cup { [kind |-> "list", list |-> <<"ai", "agent", "framework">>] }

RawCounts == { [kind |-> "absent", n |-> 0], [kind |-> "int", n |-> 234] }

RawPosts ==
    { [id |-> "raw", title |-> t, content |-> c, tags |-> g, upvotes |-> u,
       comment_count |-> [kind |-> "absent", n |-> 0]] :
        t \in RawTexts, c \in RawTexts, g \in RawTagLists, u \in RawCounts }

\* post.get(key, '').lower(): the default stands in for an absent key only;
\* None and a number have no method lower
LowerRaises(field) == field.kind \in {"null", "int"}

\* [t.lower() for t in post.get('tags', [])]: None is not iterable
TagsRaise(field) == field.kind = "null"

\* the post analyze goes on with when reading its fields did not raise
Defaulted(raw) ==
    [ id |-> raw.id, title |-> raw.title.text, content |-> raw.content.text,
      tags |-> raw.tags.list, upvotes |-> raw.upvotes.n,
      comment_count |-> raw.comment_count.n ]

\* IdeaAnalyzer.analyze on a raw post: lines 83-85 read title, content and
\* tags in this order
analyze_raw(raw, f) ==
    IF LowerRaises(raw.title) \/ LowerRaises(raw.content)
    THEN [raised |-> "AttributeError"]
    ELSE IF TagsRaise(raw.tags)
    THEN [raised |-> "TypeError"]
    ELSE analyze(Defaulted(raw), f)

RawInit ==
    /\ post \in RawPosts
    /\ fp = 0
    /\ result = NoResult
    /\ AppInit

AnalyzeRaw ==
    /\ result = NoResult
    /\ result' = analyze_raw(post, fp)
    /\ UNCHANGED <<post, fp>>
    /\ UNCHANGED <<appVars, factoryVars, ingested, monitorVars, convVars>>

RawNext == AnalyzeRaw

RawSpec == RawInit /\ [][RawNext]_vars

(***************************************************************************)
(* BuildSpec: WebsiteBuilder.build called directly, on an analysed idea    *)
(* and a direction drawn from the planner's directions, some direction     *)
(* types naming several archetypes' words, and no direction.               *)
(***************************************************************************)
BuildDirections ==
    { [type |-> DirectionTriggers[i].type, priority |-> DirectionTriggers[i].priority] :
          i \in 1..Len(DirectionTriggers) }
    \cup { [type |-> t, priority |-> "medium"] :
              t \in {"yibiaoban_dashboard", "ai_zhushou_dashboard",
                     "generator_blog", "blog_platform_tool"} }
    \cup {DefaultDirection, NoDirection}

\* the idea handed to the builder
BuildIdeas == { AnalysisOf(ToolPost) }

\* WebsiteBuilder.build(idea, direction)
BuildProject(idea, direction) ==
    /\ TotalBuilds(projects) < MaxBuilds
    /\ LET b == Build(projects, idea, direction, clock)
       IN  /\ projects' = b.projects
           /\ last' = [ op |-> "build", idea_id |-> idea.id, direction |-> direction,
                        outcome |-> IF b.raised THEN "raised" ELSE "built",
                        project_id |-> b.project_id, project_type |-> b.project_type ]
    /\ UNCHANGED <<dbIdeas, dbHeld, clock, post, fp, result, factoryVars, ingested, monitorVars, convVars>>

BuildNext ==
    \/ Tick
    \/ \E idea \in BuildIdeas, direction \in BuildDirections : BuildProject(idea, direction)

BuildSpec == Init /\ [][BuildNext]_vars

(***************************************************************************)
(* BatchConverter: markitdown-skill/scripts/batch-convert.py.  A file of   *)
(* the input directory is a record: dir is "" for the directory itself or  *)
(* the name of a subdirectory, stem and ext make up its name, converts     *)
(* tells whether md.convert returns for it, and len is the length of the   *)
(* text it is converted to.                                                *)
(***************************************************************************)
APdf == [dir |-> "",    stem |-> "a",   ext |-> "pdf",  converts |-> TRUE,  len |-> 2]
ADocx == [dir |-> "",    stem |-> "a",   ext |-> "docx", converts |-> TRUE,  len |-> 1]
SubAPdf == [dir |-> "sub", stem |-> "a",   ext |-> "pdf",  converts |-> TRUE,  len |-> 1]
BadPdf == [dir |-> "",    stem |-> "bad", ext |-> "pdf",  converts |-> FALSE, len |-> 0]
CDocx == [dir |-> "",    stem |-> "c",   ext |-> "docx", converts |-> TRUE,  len |-> 1]

\* the input directories, the extension lists (<< >>: no --extensions) and
\* the worker counts batch_convert is called with
InputDirs == { {APdf, BadPdf, CDocx}, {APdf, ADocx}, {APdf, SubAPdf} }
ExtensionLists == { << >>, <<"pdf">>, <<"pdf", "docx">>, <<"pdf", "pdf">> }
WorkerCounts == {1, 2}

\* str(input_file)
PathOf(f) == <<f.dir, f.stem, f.ext>>

\* the files of a set in the order a directory scan yields them
RECURSIVE Listing(_)
Listing(S) ==
    IF S = {} THEN << >>
    ELSE LET f == CHOOSE x \in S : TRUE
         IN  <<f>> \o Listing(S \ {f})

\* input_dir.glob("**/*.ext") when recursive, input_dir.glob("*.ext") otherwise
Glob(input_dir, ext, recursive) ==
    Listing({ f \in input_dir : f.ext = ext /\ (recursive \/ f.dir = "") })

\* for ext in extensions: files.extend(input_dir.glob(pattern))
RECURSIVE GlobAll(_, _, _, _)
GlobAll(input_dir, extensions, k, recursive) ==
    IF k > Len(extensions) THEN << >>
    ELSE Glob(input_dir, extensions[k], recursive)
             \o GlobAll(input_dir, extensions, k + 1, recursive)

\* lines 70-80 of batch_convert: the list files
CollectFiles(input_dir, extensions, recursive) ==
    IF extensions # << >> THEN GlobAll(input_dir, extensions, 1, recursive)
    ELSE Listing({ f \in input_dir : recursive \/ f.dir = "" })

\* result.text_content: len characters, each the file's own
text_content(f) == [k \in 1..f.len |-> PathOf(f)]

\* output_dir / f"{input_file.stem}.md"
output_file(f) == f.stem \o ".md"

\* open(path, 'w'): the file is created or truncated
Truncated(dir, name) ==
    [n \in DOMAIN dir \cup {name} |-> IF n = name THEN << >> ELSE dir[n]]

\* the text written from offset 0 over what the file holds
Overlay(existing, text) == text \o SubSeq(existing, Len(text) + 1, Len(existing))

\* the futures a worker thread is busy with
InProgress == { i \in 1..Len(futures) : futures[i].state \in {"converted", "opened"} }

\* batch_convert lines 67-108: the output directory is made, the files are
\* collected and one convert_file per entry is submitted; without files the
\* call returns at once
BatchConvert(input_dir, extensions, max_workers, recursive) ==
    /\ cpc = "idle"
    /\ call' = [ input_dir |-> input_dir, extensions |-> extensions,
                 max_workers |-> max_workers, recursive |-> recursive ]
    /\ files' = CollectFiles(input_dir, extensions, recursive)
    /\ futures' = [ i \in 1..Len(CollectFiles(input_dir, extensions, recursive)) |->
                      [state |-> "pending", success |-> FALSE, reported |-> FALSE] ]
    /\ outdir' = << >>
    /\ results' = [success |-> << >>, failed |-> << >>]
    /\ cpc' = IF CollectFiles(input_dir, extensions, recursive) = << >>
              THEN "returned" ELSE "running"
    /\ UNCHANGED <<scoreVars, appVars, factoryVars, ingested, monitorVars>>

\* convert_file line 37 in a worker thread: md.convert returns or raises,
\* and the exception is caught (return input_file, False, str(e))
Convert(i) ==
    /\ cpc = "running"
    /\ futures[i].state = "pending"
    /\ Cardinality(InProgress) < call.max_workers
    /\ futures' = [futures EXCEPT ![i].state =
                       IF files[i].converts THEN "converted" ELSE "done"]
    /\ UNCHANGED <<call, files, outdir, results, cpc>>
    /\ UNCHANGED <<scoreVars, appVars, factoryVars, ingested, monitorVars>>

\* convert_file line 39, first half: write_text opens the output file
OpenOutput(i) ==
    /\ futures[i].state = "converted"
    /\ outdir' = Truncated(outdir, output_file(files[i]))
    /\ futures' = [futures EXCEPT ![i].state = "opened"]
    /\ UNCHANGED <<call, files, results, cpc>>
    /\ UNCHANGED <<scoreVars, appVars, factoryVars, ingested, monitorVars>>

\* convert_file lines 39-40, second half: the text is written and the thread
\* returns input_file, True, ""
WriteOutput(i) ==
    /\ futures[i].state = "opened"
    /\ outdir' = [outdir EXCEPT ![output_file(files[i])] =
                      Overlay(@, text_content(files[i]))]
    /\ futures' = [futures EXCEPT ![i].state = "done", ![i].success = TRUE]
    /\ UNCHANGED <<call, files, results, cpc>>
    /\ UNCHANGED <<scoreVars, appVars, factoryVars, ingested, monitorVars>>

\* one round of the loop over as_completed(futures) in the calling thread
Report(i) ==
    /\ cpc = "running"
    /\ futures[i].state = "done"
    /\ ~futures[i].reported
    /\ results' = IF futures[i].success
                  THEN [results EXCEPT !.success = Append(@, PathOf(files[i]))]
                  ELSE [results EXCEPT !.failed =
                            Append(@, [file |-> PathOf(files[i]), error |-> "error"])]
    /\ futures' = [futures EXCEPT ![i].reported = TRUE]
    /\ UNCHANGED <<call, files, outdir, cpc>>
    /\ UNCHANGED <<scoreVars, appVars, factoryVars, ingested, monitorVars>>

\* return results, once as_completed has yielded every future
Return ==
    /\ cpc = "running"
    /\ \A i \in 1..Len(futures) : futures[i].reported
    /\ cpc' = "returned"
    /\ UNCHANGED <<call, files, futures, outdir, results>>
    /\ UNCHANGED <<scoreVars, appVars, factoryVars, ingested, monitorVars>>

ConvertNext ==
    \/ \E input_dir \in InputDirs, extensions \in ExtensionLists,
          max_workers \in WorkerCounts, recursive \in BOOLEAN :
              BatchConvert(input_dir, extensions, max_workers, recursive)
    \/ \E i \in 1..Len(futures) :
           \/ Convert(i)
           \/ OpenOutput(i)
           \/ WriteOutput(i)
           \/ Report(i)
    \/ Return

ConvertSpec == Init /\ [][ConvertNext]_vars

(***************************************************************************)
(* Claims about the idea lifecycle and the idea stores.                    *)
(***************************************************************************)
\* the lifecycle order new < analyzed < expanded < built
StatusRank(s) ==
    CASE s = "new" -> 0
      [] s = "analyzed" -> 1
      [] s = "expanded" -> 2
      [] s = "built" -> 3
      [] OTHER -> 0

\* C1: no lifecycle operation of IdeaFactory replaces the status of a stored
\* idea by an earlier one in the order new < analyzed < expanded < built.
C1_StatusNeverMovesBack ==
    [][ \A i \in 1..Len(ideas) :
            StatusRank(ideas'[i].status) >= StatusRank(ideas[i].status) ]_vars

\* h, the statuses a record has held in order, shows analyzed and later
\* expanded before every built
PassedThrough(h) ==
    \A i \in 1..Len(h) :
        h[i] = "built" =>
            \E a \in 1..(i - 1) : \E e \in (a + 1)..(i - 1) :
                h[a] = "analyzed" /\ h[e] = "expanded"

\* C2: an idea whose status becomes built has earlier held status analyzed
\* and, after that, status expanded.
C2_BuiltOnlyAfterAnalyzedAndExpanded ==
    \A id \in DOMAIN dbHeld : PassedThrough(dbHeld[id])

CountId(list, id) == Cardinality({ i \in 1..Len(list) : list[i].id = id })

\* C4: however often and in whatever interleaving posts are ingested, each
\* store holds exactly one record for every id that was handed to its
\* ingestion operation.
C4_OneRecordPerIngestedId ==
    /\ \A id \in ingested.factory : CountId(ideas, id) = 1
    /\ \A id \in ingested.db : CountId(dbIdeas, id) = 1

\* C4 witness: add_idea was just given a (source, title) already stored and
\* returned False, the dashboard cycle was just given the same post twice in
\* one batch, and each store holds one record of the id.
C4_Witness_SamePostTwice ==
    /\ fLast.op = "add_idea"
    /\ ~fLast.returned
    /\ CountId(ideas, fLast.idea_id) = 1
    /\ last.op = "monitor"
    /\ last.save_to_db
    /\ last.returned = <<"toolp", "toolp">>
    /\ CountId(dbIdeas, "toolp") = 1

\* C5: every idea held in an idea store has a total score of at least 25
\* (the SQLite rows keep the score in tenths, the factory's ideas in points).
C5_StoredScoresAtLeast25 ==
    /\ \A i \in 1..Len(dbIdeas) : dbIdeas[i].creativity_score >= 250
    /\ \A i \in 1..Len(ideas) : 10 * ideas[i].creativity_score >= 250

(***************************************************************************)
(* Claims about the scaffolder and the auto-build cycle (under Spec).      *)
(***************************************************************************)
\* the directories that hold a completed artifact (files and project.json)
Artifacts == { k \in DOMAIN projects : projects[k].meta # NoMeta }

\* C6: there is at most one project artifact for each (idea id, template
\* type) pair.
C6_OneArtifactPerIdeaAndType ==
    \A a \in Artifacts : \A b \in Artifacts :
        ( /\ projects[a].meta.idea = projects[b].meta.idea
          /\ projects[a].meta.type = projects[b].meta.type ) => a = b

\* C7: no two builds that produce an artifact produce the same artifact id:
\* no artifact directory is written by more than one build.
C7_NoDirectoryWrittenTwice ==
    \A k \in DOMAIN projects : projects[k].builds <= 1

\* C8: when the scaffolder raises for one idea of an auto-build batch, the
\* cycle is not aborted and every later idea of the batch that is not already
\* built is scaffolded.
C8_FailureDoesNotAbortBatch ==
    (last.op = "auto_build" /\ last.failed # 0) =>
        /\ ~last.aborted
        /\ \A i \in (last.failed + 1)..Len(last.batch) :
               i \in last.skipped \/ i \in SeqToSet(last.built)

(***************************************************************************)
(* Claims about the scoring engine (checked under ScoreSpec).              *)
(***************************************************************************)

\* C9: for every post the reported total is within 0..100 and every
\* sub-score is non-negative and within its ceiling (tech 40, business 30,
\* utility 25, engagement 20, category bonus 20).
C9_ScoresWithinBounds ==
    result # NoResult =>
        /\ result.creativity_score >= 0
        /\ result.creativity_score <= 1000
        /\ result.analysis.tech_score \in 0..40
        /\ result.analysis.business_score \in 0..30
        /\ result.analysis.utility_score \in 0..25
        /\ result.analysis.engagement_score >= 0
        /\ result.analysis.engagement_score <= 200
        /\ result.analysis.category_score \in 0..2000

\* C10: the collectible flag is true exactly when the reported
\* creativity_score (one decimal) is at least 25.
C10_CollectibleIffReported25 ==
    result # NoResult =>
        (result.collectible <=> result.creativity_score >= 250)


\* C11: analysing the post 'AI Agent 协作框架' (content '构建多个AI agent
\* 协作完成复杂任务的框架', tags ai, agent, framework, 234 upvotes, 45
\* comments) yields the AI-application category label, collectible and
\* high_quality both true, and a direction list holding the type
\* 'AI Agent 应用'.
C11_DemoPostIsHighQualityAiIdea ==
    (post = DemoPost1 /\ result # NoResult) =>
        /\ result.category = CATEGORIES[1].description
        /\ result.collectible
        /\ result.high_quality
        /\ \E i \in 1..Len(result.project_directions) :
               result.project_directions[i].type = "ai_agent_yingyong"


\* the post with empty title, content and tags and no upvotes or comments
IsEmptyPost(p) ==
    /\ p.title = {} /\ p.content = {} /\ p.tags = << >>
    /\ p.upvotes = 0 /\ p.comment_count = 0

\* C12: analysing a post with empty title, content and tags and zero
\* upvotes and comments yields total score 0, collectible false, exactly
\* one direction, which is the default one with priority low, and non-empty
\* default tech-stack lists and monetization list.
C12_EmptyPostGetsDefaults ==
    (IsEmptyPost(post) /\ result # NoResult) =>
        /\ result.creativity_score = 0
        /\ ~result.collectible
        /\ Len(result.project_directions) = 1
        /\ result.project_directions[1].type = "chuangyi_xiangmu_yuanxing"
        /\ result.project_directions[1].priority = "low"
        /\ result.tech_stack.frontend = <<"React", "Vue.js">>
        /\ result.tech_stack.backend = <<"FastAPI", "Express">>
        /\ result.tech_stack.database = <<"PostgreSQL", "SQLite">>
        /\ result.tech_stack.deployment # << >>
        /\ result.monetization = <<"zh_guanggao", "zh_zanzhu", "zh_lianmeng_yingxiao">>

\* the empty post has been analysed
C12_Witness_EmptyPostAnalysed ==
    IsEmptyPost(post) /\ result # NoResult /\ result.id = "p"


\* the number of distinct keywords of category i occurring in a text
DistinctKeywordsIn(i, text) ==
    Cardinality(SeqToSet(CATEGORIES[i].keywords) \cap text)

\* C13: the categorizer returns a category's label only if at least two
\* distinct keywords of that category occur in the text; a text in which
\* no category has two distinct keywords gets the default label 通用.
C13_LabelNeedsTwoDistinctKeywords ==
    result # NoResult =>
        /\ \A i \in 1..Len(CATEGORIES) :
               result.category = CATEGORIES[i].description =>
                   DistinctKeywordsIn(i, Combined(post)) >= 2
        /\ (\A i \in 1..Len(CATEGORIES) : DistinctKeywordsIn(i, Combined(post)) < 2)
               => result.category = DefaultCategory


\* the triggers of which a keyword occurs in the content of a post
FiredTriggers(p) ==
    { i \in 1..Len(DirectionTriggers) :
          DirectionTriggers[i].keywords \cap Occ(p.content) # {} }

\* the positions in the declaration order of the triggers giving a type
TriggersOfType(type) ==
    { i \in 1..Len(DirectionTriggers) : DirectionTriggers[i].type = type }

\* C14: the direction list of an analysed post is non-empty, holds at most
\* one entry per trigger, in the declaration order of the triggers
\* (dashboard, generator, AI agent, platform, tool, blog), and holds the
\* default direction (priority low) exactly when no trigger keyword occurs
\* in the content, in which case it is the only entry.
C14_DirectionsOrderedAndDefaultOnlyAlone ==
    result # NoResult =>
        LET d == result.project_directions
            isDefault(k) == d[k].type = "chuangyi_xiangmu_yuanxing" /\ d[k].priority = "low"
        IN  /\ Len(d) >= 1
            /\ \A j, k \in 1..Len(d) : j < k => d[j].type # d[k].type
            /\ (\E k \in 1..Len(d) : isDefault(k)) <=> (FiredTriggers(post) = {})
            /\ (FiredTriggers(post) = {}) => Len(d) = 1
            /\ (FiredTriggers(post) # {}) =>
                   /\ \A k \in 1..Len(d) : TriggersOfType(d[k].type) \cap FiredTriggers(post) # {}
                   /\ \A j, k \in 1..Len(d) : j < k =>
                          \A a \in TriggersOfType(d[j].type), b \in TriggersOfType(d[k].type) : a < b

\* a post whose content fires the dashboard, the AI-agent and the blog
\* trigger has been analysed, and one firing no trigger has been too
C14_Witness_SeveralTriggersFired ==
    /\ result # NoResult
    /\ FiredTriggers(post) = {1, 3, 6}
    /\ Len(result.project_directions) = 3


\* the keyword groups of the type chooser in the order they are tried, with
\* the archetype of each
ArchetypeGroups ==
    << [words |-> {"zh_zhushou", "assistant"},     archetype |-> "ai_assistant"],
       [words |-> {"zh_yibiaoban", "dashboard"},   archetype |-> "dashboard"],
       [words |-> {"zh_shengchengqi", "generator"}, archetype |-> "generator"],
       [words |-> {"zh_boke", "blog"},             archetype |-> "blog"],
       [words |-> {"zh_pingtai", "platform"},      archetype |-> "saas_platform"],
       [words |-> {"zh_gongju", "tool"},           archetype |-> "tool_website"] >>

\* the groups of which a word occurs in a direction's type
GroupsIn(direction) ==
    IF direction = NoDirection THEN {}
    ELSE { i \in 1..Len(ArchetypeGroups) :
               ArchetypeGroups[i].words \cap Occ(TypeText(direction.type)) # {} }

\* C15: a build takes the archetype of the first keyword group, in the
\* order assistant, dashboard, generator, blog, platform, tool, that occurs
\* in the direction's type, and the generic tool archetype when none occurs
\* or no direction is given; the direction type 仪表板/dashboard gives the
\* dashboard archetype, whose file set holds the dashboard page stub and
\* the four common files package.json, README.md, .env.example, .gitignore.
C15_ArchetypeOfFirstGroup ==
    last.op = "build" =>
        /\ (GroupsIn(last.direction) = {}) => last.project_type = "tool_website"
        /\ (GroupsIn(last.direction) # {}) =>
               \E i \in GroupsIn(last.direction) :
                   /\ \A j \in GroupsIn(last.direction) : i <= j
                   /\ last.project_type = ArchetypeGroups[i].archetype
        /\ (last.direction # NoDirection /\ last.direction.type = "yibiaoban_dashboard") =>
               /\ last.project_type = "dashboard"
               /\ last.outcome = "built"
               /\ {"app/page.tsx", "package.json", "README.md", ".env.example", ".gitignore"}
                      \subseteq projects[last.project_id].files

\* a build with the direction type 仪表板/dashboard has written its project,
\* after an earlier build at another clock reading
C15_Witness_DashboardDirectionBuilt ==
    /\ last.op = "build"
    /\ last.direction # NoDirection
    /\ last.direction.type = "yibiaoban_dashboard"
    /\ last.outcome = "built"
    /\ Cardinality(DOMAIN projects) >= 2


\* C16: analyze never raises on missing or malformed fields: an absent
\* title, a title or content that is null or not a string, and absent or
\* null tags are each treated as empty, and a full result is returned.
C16_AnalyzeNeverRaises ==
    result # NoResult =>
        /\ "raised" \notin DOMAIN result
        /\ result = analyze(Defaulted(post), fp)


\* C17: when the HTTP request of a fetch fails (a status other than 200,
\* such as 401 or 429, or a network exception), every fetch entry point
\* returns an empty list without raising, and the cycle that called it
\* ingests no new idea.
C17_FailedFetchGivesNothing ==
    (mLast.op \in {"get_feed", "get_posts", "fetch_posts", "monitor_cycle"}
        /\ mLast.status \in FetchFailures) =>
        /\ mLast.returned = << >>
        /\ mLast.saved = 0


\* C18: in one auto-build cycle at most 5 ideas are scaffolded, none of
\* them has status built, and they are the highest-scoring not-yet-built
\* candidates taken in descending score order: a not-yet-built candidate at
\* or above the minimum score is left out only if 5 not-yet-built
\* candidates with scores at least as high were scaffolded.  (Cycles ended
\* by an exception of the scaffolder are left aside.)
C18_BatchIsTopFiveUnbuilt ==
    (last.op = "auto_build" /\ ~last.aborted) =>
        LET hs == last.high_score
            built == last.built
        IN  /\ Len(built) <= 5
            /\ \A k \in 1..Len(built) : hs[built[k]].status # "built"
            /\ \A j, k \in 1..Len(built) :
                   j < k => hs[built[j]].creativity_score >= hs[built[k]].creativity_score
            /\ \A c \in 1..Len(hs) :
                   (hs[c].status # "built" /\ c \notin SeqToSet(built)) =>
                       Cardinality({ k \in 1..Len(built) :
                           hs[built[k]].creativity_score >= hs[c].creativity_score }) >= 5


\* the statuses of the stored rows of an idea
StoredStatuses(idea_id) ==
    { dbIdeas[i].status : i \in { j \in 1..Len(dbIdeas) : dbIdeas[j].id = idea_id } }

C20_StoredIdeaKeepsDirections ==
    \A p \in FeedPosts :
        LET top_ideas == get_top_ideas(dbIdeas, TopLimit)
        IN  \A i \in 1..Len(top_ideas) :
                top_ideas[i].id = p.id =>
                    FromRow(top_ideas[i]).project_directions = AnalysisOf(p).project_directions


\* the records of a store present before a step are the same after it
RecordsKept(before, after) ==
    /\ Len(after) >= Len(before)
    /\ \A i \in 1..Len(before) : after[i] = before[i]

\* C21: when an ingested idea's id already exists in the store, ingestion
\* changes nothing: the stored record (status, score, content, tags) stays
\* as it was, and add_idea returns False.  Every add_idea step and every
\* saving monitoring cycle keeps all records the store held, and an
\* add_idea of a stored id adds none and answers False.
C21_DuplicateIngestionChangesNothing ==
    [][ /\ (\E title \in Titles, content \in FactoryContents, tags \in FactoryTags :
               AddIdea("molt", title, content, tags))
           => /\ RecordsKept(ideas, ideas')
              /\ (fLast'.idea_id \in FactoryIds(ideas)) => (ideas' = ideas /\ ~fLast'.returned)
        /\ (\E feed \in ReingestFeeds : RunMonitoringCycle(feed, TRUE))
           => /\ RecordsKept(dbIdeas, dbIdeas')
              /\ (\A i \in 1..Len(last'.returned) : last'.returned[i] \in DbIds(dbIdeas))
                     => dbIdeas' = dbIdeas
      ]_vars

\* add_idea has just answered False for an idea that is stored as analysed,
\* and the saving cycle has just been handed the edited post while its row
\* is stored as built with the earlier content
C21_Witness_DuplicateOfChangedRecord ==
    /\ fLast.op = "add_idea"
    /\ ~fLast.returned
    /\ \E i \in 1..Len(ideas) : ideas[i].id = fLast.idea_id /\ ideas[i].status = "analyzed"
    /\ last.op = "monitor"
    /\ last.returned = <<"toolp">>
    /\ \E i \in 1..Len(dbIdeas) :
           /\ dbIdeas[i].id = "toolp"
           /\ dbIdeas[i].status = "built"
           /\ dbIdeas[i].content = ToolPost.content


\* C22: whenever WebsiteBuilder.build has returned or raised, every
\* artifact directory it created holds the metadata record project.json and
\* all files of the chosen archetype's manifest; no build leaves a directory
\* without its metadata or with only part of its files.
C22_DirectoryHasMetadataAndManifest ==
    \A project_id \in DOMAIN projects :
        /\ projects[project_id].meta # NoMeta
        /\ Manifest(projects[project_id].meta.type) \subseteq projects[project_id].files


\* the points one more match adds to a sub-score of the analysed post: the
\* keyword appended to the tag list, against the keyword added to the text
TagPoints(score(_, _), text, tags, kw) == score(text, Append(tags, kw)) - score(text, tags)
TextPoints(score(_, _), text, tags, kw) == score(Occ(text \cup {kw}), tags) - score(text, tags)

\* the tracked keywords whose match in the analysed post is not cut by the
\* sub-score's ceiling: absent from the text, adding one text match only
Uncut(score(_, _), keywords, ceiling, text, tags) ==
    { kw \in SeqToSet(keywords) :
        /\ kw \notin text
        /\ CountIn(keywords, Occ(text \cup {kw})) = CountIn(keywords, text) + 1
        /\ score(text, Append(tags, kw)) < ceiling
        /\ score(Occ(text \cup {kw}), tags) < ceiling }

\* C23: in each sub-score that counts tags (tech_score and utility_score), one
\* tracked keyword matched as a tag adds strictly more points than one tracked
\* keyword matched in the free text.
C23_TagMatchAddsMoreThanTextMatch ==
    result # NoResult =>
        LET text == Combined(post)
        IN  /\ \A kw \in Uncut(_calc_tech_score, TECH_KEYWORDS, 40, text, post.tags) :
                   TagPoints(_calc_tech_score, text, post.tags, kw)
                       > TextPoints(_calc_tech_score, text, post.tags, kw)
            /\ \A kw \in Uncut(_calc_utility_score, UTILITY_KEYWORDS, 25, text, post.tags) :
                   TagPoints(_calc_utility_score, text, post.tags, kw)
                       > TextPoints(_calc_utility_score, text, post.tags, kw)


\* the categories with at least one keyword match in the text
MatchingCategories(text) ==
    { i \in 1..Len(CATEGORIES) : CountIn(CATEGORIES[i].keywords, text) > 0 }

\* the matching category of the highest weight
HighestWeighted(text) ==
    CHOOSE i \in MatchingCategories(text) :
        \A j \in MatchingCategories(text) : CATEGORIES[j].weight <= CATEGORIES[i].weight

MatchingBonuses(text) ==
    { CategoryBonus(CATEGORIES[i], text) : i \in MatchingCategories(text) }

C25_TotalAtMostThirtyAndAHalf ==
    result # NoResult =>
        /\ TotalScore(post) <= 350 * 40 + 250 * 30 + 200 * 25 + 100 * 20 + 100 * 20
        /\ result.creativity_score <= 305
        /\ ~result.high_quality
        /\ result.creativity_score < DefaultMinScore

\* an analysis in which every sub-score stands at its ceiling
C25_Witness_EverySubScoreAtCeiling ==
    /\ result # NoResult
    /\ result.analysis.tech_score = 40
    /\ result.analysis.business_score = 30
    /\ result.analysis.utility_score = 25
    /\ result.analysis.engagement_score = 200
    /\ result.analysis.category_score = 2000
    /\ result.creativity_score = 305


\* the direction types the planner emits: those of the directions it
\* extracts from the posts whose content is any set of trigger words
PlannerTypes ==
    UNION { { _extract_project_directions([content |-> c])[i].type :
                i \in 1..Len(_extract_project_directions([content |-> c])) } :
            c \in SUBSET {"dashboard", "generator", "ai", "platform", "tool", "blog"} }

\* C26: no direction the planner emits gives the ai_assistant archetype: for
\* each of the seven direction types of _extract_project_directions,
\* _determine_type answers one of dashboard, generator, saas_platform, blog and
\* tool_website, and the direction AI Agent 应用 is scaffolded as tool_website.
C26_PlannerDirectionNeverAssistant ==
    (last.op = "build" /\ last.direction # NoDirection /\ last.direction.type \in PlannerTypes) =>
        /\ last.project_type \in {"dashboard", "generator", "saas_platform", "blog", "tool_website"}
        /\ last.project_type # "ai_assistant"
        /\ last.direction.type = "ai_agent_yingyong" =>
               /\ last.project_type = "tool_website"
               /\ last.outcome = "built"
               /\ projects[last.project_id].meta.type = "tool_website"

\* the planner's AI Agent direction has just been built, and the planner
\* emits seven direction types
C26_Witness_AgentDirectionBuilt ==
    /\ last.op = "build"
    /\ last.direction # NoDirection
    /\ last.direction.type = "ai_agent_yingyong"
    /\ last.outcome = "built"
    /\ Cardinality(PlannerTypes) = 7


\* C27: in every reachable state, an idea whose stored status is built has
\* at least one artifact on disk, a directory holding project.json, that was
\* generated from it.
C27_BuiltIdeaHasArtifact ==
    /\ \A i \in 1..Len(dbIdeas) :
           dbIdeas[i].status = "built" =>
               \E k \in DOMAIN projects :
                   /\ projects[k].meta # NoMeta
                   /\ projects[k].meta.idea = dbIdeas[i].id
                   /\ Manifest(projects[k].meta.type) \subseteq projects[k].files
    /\ \A i \in 1..Len(ideas) :
           ideas[i].status = "built" =>
               \E k \in DOMAIN fProjects :
                   /\ fProjects[k].meta # NoMeta
                   /\ fProjects[k].meta.idea = ideas[i].id

\* a stored idea is built while a build for another idea has raised and left
\* its directory without project.json
C27_Witness_BuiltRowBesideFailedBuild ==
    /\ \E i \in 1..Len(dbIdeas) : dbIdeas[i].status = "built"
    /\ \E k \in DOMAIN projects : projects[k].meta = NoMeta
    /\ fLast.op = "build_website"


\* C28: after any number of MoltbookMonitor cycles, monitoring_posts.json
\* holds no two entries with the same post id, whatever batch was fetched,
\* a batch in which one id occurs more than once included.
C28_MonitoringFileHasDistinctIds ==
    \A i \in 1..Len(monitoring_posts) : \A j \in 1..Len(monitoring_posts) :
        monitoring_posts[i].id = monitoring_posts[j].id => i = j


(***************************************************************************)
(* Claims about the batch converter (checked under ConvertSpec).           *)
(***************************************************************************)
\* the distinct input files the call collected
CollectedFiles == { PathOf(files[i]) : i \in 1..Len(files) }

\* how often a path is listed under success and under failed
TimesIn(path) ==
    Cardinality({ k \in 1..Len(results.success) : results.success[k] = path })
  + Cardinality({ k \in 1..Len(results.failed) : results.failed[k].file = path })

\* C29: batch_convert reports every collected input file exactly once, in
\* exactly one of success and failed, whatever the order in which the worker
\* threads finish; a failing conversion does not keep the others from being
\* reported, and len(success) + len(failed) is the number of distinct input
\* files.
C29_EveryFileReportedOnce ==
    cpc = "returned" =>
        /\ \A path \in CollectedFiles : TimesIn(path) = 1
        /\ Len(results.success) + Len(results.failed) = Cardinality(CollectedFiles)

\* C30: no two worker threads write the same output file, and every input
\* listed under success has its own output file holding its own converted
\* content, also when two inputs share a stem and differ only in extension
\* or subdirectory.
C30_OwnOutputFilePerSuccess ==
    /\ \A i \in 1..Len(files) : \A j \in 1..Len(files) :
           ( i # j /\ futures[i].state = "opened" /\ futures[j].state = "opened" ) =>
               output_file(files[i]) # output_file(files[j])
    /\ cpc = "returned" =>
           \A i \in 1..Len(files) :
               futures[i].success =>
                   /\ output_file(files[i]) \in DOMAIN outdir
                   /\ outdir[output_file(files[i])] = text_content(files[i])
                   /\ \A j \in 1..Len(files) :
                          ( futures[j].success /\ PathOf(files[j]) # PathOf(files[i]) ) =>
                              output_file(files[j]) # output_file(files[i])

=============================================================================
